---- MODULE Spec2Model ----
(***************************************************************************)
(* Email Document Assistant (src/src/server.py).                           *)
(*                                                                         *)
(* Python str values are TLA+ strings; Python dicts are sequences of       *)
(* <<key, value>> pairs with pairwise distinct keys, in insertion order    *)
(* (assignment to an existing key keeps its position, a new key is         *)
(* appended), which is the iteration order of a Python dict.               *)
(***************************************************************************)
EXTENDS Integers, Sequences, FiniteSets, TLC

(***************************************************************************)
(* Bounds of the model.                                                    *)
(***************************************************************************)
MaxPairs == 3

MaxParts == 2

MaxGen == 1

(***************************************************************************)
(* str helpers.                                                            *)
(***************************************************************************)
CharAt(s, i) == SubSeq(s, i, i)

UpperChars == "ABCDEFGHIJKLMNOPQRSTUVWXYZ"

LowerChars == "abcdefghijklmnopqrstuvwxyz"

DigitChars == "0123456789"

LowerTable ==
    [c \in {CharAt(UpperChars, i) : i \in 1..Len(UpperChars)} |->
        CharAt(LowerChars, CHOOSE i \in 1..Len(UpperChars) : CharAt(UpperChars, i) = c)]

\* str.lower() of one character
LowerChar(c) == IF c \in DOMAIN LowerTable THEN LowerTable[c] ELSE c

RECURSIVE LowerFrom(_, _)
LowerFrom(s, i) ==
    IF i > Len(s) THEN "" ELSE LowerChar(CharAt(s, i)) \o LowerFrom(s, i + 1)

\* str.lower()
Lower(s) == LowerFrom(s, 1)

\* sub in s
Contains(s, sub) ==
    \E i \in 1..(Len(s) - Len(sub) + 1) : SubSeq(s, i, i + Len(sub) - 1) = sub

\* s.endswith(suf)
EndsWith(s, suf) ==
    /\ Len(s) >= Len(suf)
    /\ SubSeq(s, Len(s) - Len(suf) + 1, Len(s)) = suf

\* s.isdigit()
IsDigit(s) ==
    /\ Len(s) > 0
    /\ \A i \in 1..Len(s) : \E j \in 1..Len(DigitChars) : CharAt(DigitChars, j) = CharAt(s, i)

(***************************************************************************)
(* dict helpers.                                                           *)
(***************************************************************************)
Keys(m) == {m[i][1] : i \in DOMAIN m}

\* k in m
Has(m, k) == \E i \in DOMAIN m : m[i][1] = k

\* m[k]
Get(m, k) == m[CHOOSE i \in DOMAIN m : m[i][1] = k][2]

\* m.get(k, d)
GetOr(m, k, d) == IF Has(m, k) THEN Get(m, k) ELSE d

\* m[k] = v
Put(m, k, v) ==
    IF Has(m, k)
    THEN [i \in DOMAIN m |-> IF m[i][1] = k THEN <<k, v>> ELSE m[i]]
    ELSE Append(m, <<k, v>>)

(***************************************************************************)
(* _fill_pdf_form: the normalization passes over processed_values.         *)
(***************************************************************************)
month_map ==
    ("january" :> "01") @@ ("february" :> "02") @@ ("march" :> "03") @@
    ("april" :> "04") @@ ("may" :> "05") @@ ("june" :> "06") @@
    ("july" :> "07") @@ ("august" :> "08") @@ ("september" :> "09") @@
    ("october" :> "10") @@ ("november" :> "11") @@ ("december" :> "12")

\* a variant that compares the value without lower-casing it
MonthValue_NoLower(key, value) ==
    IF Contains(Lower(key), "month") /\ value \in DOMAIN month_map
    THEN month_map[value]
    ELSE value

MonthValue(key, value) ==
    IF Contains(Lower(key), "month") /\ Lower(value) \in DOMAIN month_map
    THEN month_map[Lower(value)]
    ELSE value

\* lines 169-173: processed_values built from field_values, key by key
MonthNormalize(field_values) ==
    [i \in DOMAIN field_values |->
        <<field_values[i][1], MonthValue(field_values[i][1], field_values[i][2])>>]

IsYearPair(key, value) ==
    /\ Contains(Lower(key), "yr") \/ Contains(Lower(key), "year")
    /\ Len(value) = 4
    /\ IsDigit(value)

\* a variant that takes the last year-like pair
FindYear_Last(m) ==
    IF \E i \in DOMAIN m : IsYearPair(m[i][1], m[i][2])
    THEN m[CHOOSE i \in DOMAIN m :
             /\ IsYearPair(m[i][1], m[i][2])
             /\ \A j \in DOMAIN m : IsYearPair(m[j][1], m[j][2]) => i >= j][2]
    ELSE "2025"

\* lines 176-181: the first year-like pair in dict order, else "2025"
FindYear(m) ==
    IF \E i \in DOMAIN m : IsYearPair(m[i][1], m[i][2])
    THEN m[CHOOSE i \in DOMAIN m :
             /\ IsYearPair(m[i][1], m[i][2])
             /\ \A j \in DOMAIN m : IsYearPair(m[j][1], m[j][2]) => i <= j][2]
    ELSE "2025"

\* lines 175-186
YearDecompose(m) ==
    LET current_year == FindYear(m) IN
    Put(Put(Put(Put(m, "Year-1", CharAt(current_year, 1)),
                       "Year-2", CharAt(current_year, 2)),
                       "Year-3", CharAt(current_year, 3)),
                       "Year-4", CharAt(current_year, 4))

defaults ==
    << <<"Month", "03">>, <<"Day", "15">>,
       <<"Seller State", "CA">>, <<"Buyer State", "CA">>,
       <<"Sell zip", "90210">>, <<"Buyer zip", "90210">>,
       <<"Sell date 1", "03/15/2025">>, <<"Sell date 2", "">> >>

RECURSIVE BackfillFrom(_, _)
BackfillFrom(m, i) ==
    IF i > Len(defaults) THEN m
    ELSE LET field == defaults[i][1]
             default_value == defaults[i][2]
         IN  BackfillFrom(IF ~Has(m, field) \/ GetOr(m, field, "") = ""
                          THEN Put(m, field, default_value)
                          ELSE m,
                          i + 1)

\* a variant that writes every default
RECURSIVE OverwriteFrom(_, _)
OverwriteFrom(m, i) ==
    IF i > Len(defaults) THEN m
    ELSE OverwriteFrom(Put(m, defaults[i][1], defaults[i][2]), i + 1)

DefaultBackfill_Overwrite(m) == OverwriteFrom(m, 1)

\* lines 188-197
DefaultBackfill(m) == BackfillFrom(m, 1)

\* x or y on str
StrOr(x, y) == IF x # "" THEN x ELSE y

\* a variant that clears the second row only when the second name is empty
SuppressDuplicates_EmptyOnly(m) ==
    IF GetOr(m, "Seller print name 2", "") = ""
    THEN [i \in DOMAIN m |->
             IF EndsWith(m[i][1], " 2") THEN <<m[i][1], "">> ELSE m[i]]
    ELSE m

\* lines 199-205
SuppressDuplicates(m) ==
    LET first_seller == StrOr(GetOr(m, "Print seller's name", ""),
                              GetOr(m, "Seller print name 1", ""))
        second_seller == GetOr(m, "Seller print name 2", "")
    IN  IF second_seller = "" \/ second_seller = first_seller
        THEN [i \in DOMAIN m |->
                 IF EndsWith(m[i][1], " 2") THEN <<m[i][1], "">> ELSE m[i]]
        ELSE m

\* lines 161-205
Normalize(field_values) ==
    SuppressDuplicates(DefaultBackfill(YearDecompose(MonthNormalize(field_values))))

(***************************************************************************)
(* pathlib helpers.                                                        *)
(***************************************************************************)
\* s.rfind(c), 0 when c does not occur
LastIndexOf(s, c) ==
    IF \E i \in 1..Len(s) : CharAt(s, i) = c
    THEN CHOOSE i \in 1..Len(s) :
             /\ CharAt(s, i) = c
             /\ \A j \in (i + 1)..Len(s) : CharAt(s, j) # c
    ELSE 0

\* s.split("/")[-1]
LastSegment(s) == SubSeq(s, LastIndexOf(s, "/") + 1, Len(s))

\* Path(p).with_stem(Path(p).stem + "_filled")
WithFilledStem(p) ==
    LET name == LastSegment(p)
        parent == SubSeq(p, 1, Len(p) - Len(name))
        dot == LastIndexOf(name, ".")
        hasSuffix == dot > 1 /\ dot < Len(name)
        stem == IF hasSuffix THEN SubSeq(name, 1, dot - 1) ELSE name
        suffix == IF hasSuffix THEN SubSeq(name, dot, Len(name)) ELSE ""
    IN  parent \o stem \o "_filled" \o suffix

WORK_DIR == "/tmp/mcp_pdfs"

(***************************************************************************)
(* Documents.  A file is [readable, pages]; pages is a sequence of pages,  *)
(* a page the sequence of its widgets [field_name, field_type_string,      *)
(* field_value].  An unreadable file makes pymupdf.open raise.             *)
(***************************************************************************)
Widget(n, t, v) == [field_name |-> n, field_type_string |-> t, field_value |-> v]

Pdf(pages) == [readable |-> TRUE, pages |-> pages]

Corrupt == [readable |-> FALSE, pages |-> <<>>]

NoWidgetsDoc == Pdf(<< <<>> >>)

OnePageDoc ==
    Pdf(<< << Widget("Month", "Text", ""),
              Widget("Year-1", "Text", ""),
              Widget("Seller print name 2", "Text", "old"),
              Widget("Signature", "Text", "keep") >> >>)

TwoPageDoc ==
    Pdf(<< << Widget("Month", "Text", "12"),
              Widget("Name", "Text", "old") >>,
           << Widget("Month", "Text", ""),
              Widget("Day", "Text", ""),
              Widget("Submit", "Button", "Off") >> >>)

DocSet == {NoWidgetsDoc, OnePageDoc, TwoPageDoc}

\* all widgets of a document, in page order
RECURSIVE WidgetsFrom(_, _)
WidgetsFrom(pages, p) ==
    IF p > Len(pages) THEN <<>> ELSE pages[p] \o WidgetsFrom(pages, p + 1)

AllWidgets(doc) == WidgetsFrom(doc.pages, 1)

RECURSIVE CountIn(_, _, _)
CountIn(ws, m, i) ==
    IF i > Len(ws) THEN 0
    ELSE (IF Has(m, ws[i].field_name) THEN 1 ELSE 0) + CountIn(ws, m, i + 1)

\* a variant that empties the widgets the map does not name
Commit_ClearsOthers(doc, m) ==
    [readable |-> TRUE,
     pages |-> [p \in DOMAIN doc.pages |->
                  [w \in DOMAIN doc.pages[p] |->
                      [doc.pages[p][w] EXCEPT !.field_value =
                          GetOr(m, doc.pages[p][w].field_name, "")]]]]

\* lines 207-215: the widgets after the fill loop (str() of a str is the str)
Commit(doc, m) ==
    [readable |-> TRUE,
     pages |-> [p \in DOMAIN doc.pages |->
                  [w \in DOMAIN doc.pages[p] |->
                      LET widget == doc.pages[p][w] IN
                      IF Has(m, widget.field_name)
                      THEN [widget EXCEPT !.field_value = Get(m, widget.field_name)]
                      ELSE widget]]]

\* lines 208-215: fields_filled
FieldsFilled(doc, m) == CountIn(AllWidgets(doc), m, 1)

\* lines 221-223: the encoded bytes of a saved file
Base64(file) == <<"base64", file>>

\* lines 156-234: the value _fill_pdf_form returns
FillResult(file, pdf_path, field_values, save_ok) ==
    IF ~file.readable \/ ~save_ok
    THEN [status |-> "error", message |-> "Failed to fill PDF"]
    ELSE LET processed_values == Normalize(field_values)
             fields_filled == FieldsFilled(file, processed_values)
         IN  [status |-> "success",
              message |-> "Filled fields",
              output_path |-> WithFilledStem(pdf_path),
              fields_filled |-> fields_filled,
              pdf_base64 |-> Base64(Commit(file, processed_values)),
              download_instructions |-> "Decode pdf_base64 from base64 and save as .pdf"]

(***************************************************************************)
(* Inputs of fill_pdf_form.                                                *)
(***************************************************************************)
PairSet ==
    { <<"Month", "March">>, <<"Month", "03">>, <<"Month", "">>,
      <<"Name", "May">>,
      <<"Year", "2024">>, <<"Year", "20a4">>,
      <<"Model yr", "1999">>,
      <<"Year-1", "7">>,
      <<"Sell date 2", "04/01/2025">>,
      <<"Print seller's name", "Jane">>, <<"Print seller's name", "">>,
      <<"Seller print name 1", "Bob">>,
      <<"Seller print name 2", "Bob">>, <<"Seller print name 2", "Jane">>,
      <<"Seller print name 2", "">> }

RECURSIVE MapsOfLen(_)
MapsOfLen(n) ==
    IF n = 0 THEN {<<>>}
    ELSE {Append(m, kv) : m \in MapsOfLen(n - 1), kv \in PairSet}

DistinctKeys(m) == \A i, j \in DOMAIN m : m[i][1] = m[j][1] => i = j

\* the dicts of at most MaxPairs items
ValueMaps == UNION {{m \in MapsOfLen(n) : DistinctKeys(m)} : n \in 0..MaxPairs}

FormPath == WORK_DIR \o "/form.pdf"

(***************************************************************************)
(* _parse_email.  The response of the email URL is [decodable, sender,     *)
(* subject, parts]; a part is [filename, body], and str(part) is the repr  *)
(* of the dict {'filename': ..., 'body': ...}.  The strings of the model   *)
(* hold no quote, backslash or control character, so repr writes them      *)
(* between single quotes as they are.                                      *)
(***************************************************************************)
PartStr(part) ==
    "{'filename': '" \o part.filename \o "', 'body': '" \o part.body \o "'}"

DrivePrefix == "https://drive.google.com/"

\* the characters excluded by [^\s'"]
IsDelim(c) == c \in {" ", "\t", "\n", "\r", "\f", "'", "\""}

\* the last index of the run of non-delimiters that starts at j (j - 1 if none)
RECURSIVE RunEnd(_, _)
RunEnd(s, j) ==
    IF j > Len(s) \/ IsDelim(CharAt(s, j)) THEN j - 1 ELSE RunEnd(s, j + 1)

\* re.findall(r'https://drive\.google\.com/[^\s\'"]+', s), scanning from i
RECURSIVE FindAllFrom(_, _)
FindAllFrom(s, i) ==
    IF i > Len(s) THEN <<>>
    ELSE LET after == i + Len(DrivePrefix)
             end == RunEnd(s, after)
         IN  IF /\ after - 1 <= Len(s)
                /\ SubSeq(s, i, after - 1) = DrivePrefix
                /\ end >= after
             THEN <<SubSeq(s, i, end)>> \o FindAllFrom(s, end + 1)
             ELSE FindAllFrom(s, i + 1)

\* a variant that scans every part, whatever its filename
PartLinks_AnyFilename(part) ==
    IF Contains(PartStr(part), "drive.google.com")
    THEN FindAllFrom(PartStr(part), 1)
    ELSE <<>>

\* lines 67-73: the links one part contributes
PartLinks(part) ==
    IF EndsWith(part.filename, ".pdf") /\ Contains(PartStr(part), "drive.google.com")
    THEN FindAllFrom(PartStr(part), 1)
    ELSE <<>>

RECURSIVE LinksFrom(_, _)
LinksFrom(parts, i) ==
    IF i > Len(parts) THEN <<>> ELSE PartLinks(parts[i]) \o LinksFrom(parts, i + 1)

\* lines 52-83: the value _parse_email returns
ParseResult(response) ==
    IF ~response.decodable
    THEN [status |-> "error", message |-> "Failed to parse email"]
    ELSE LET pdf_urls == LinksFrom(response.parts, 1) IN
         [status |-> "success",
          sender |-> response.sender,
          subject |-> response.subject,
          pdf_count |-> Len(pdf_urls),
          pdf_urls |-> pdf_urls]

(***************************************************************************)
(* Inputs of parse_email.                                                  *)
(***************************************************************************)
LinkA == "https://drive.google.com/file/d/a/view"

LinkB == "https://drive.google.com/file/d/b/view"

BodySet ==
    { "",
      "see " \o LinkA,
      LinkA \o " " \o LinkB,
      "https://dropbox.com/c drive.google.com/d",
      DrivePrefix }

FilenameSet == {"contract.pdf", "notes.txt", ""}

PartSet == [filename : FilenameSet, body : BodySet]

RECURSIVE PartsOfLen(_)
PartsOfLen(n) ==
    IF n = 0 THEN {<<>>}
    ELSE {Append(ps, p) : ps \in PartsOfLen(n - 1), p \in PartSet}

Email(parts) ==
    [decodable |-> TRUE, sender |-> "jane@example.com", subject |-> "Please sign",
     parts |-> parts]

Undecodable == [decodable |-> FALSE, sender |-> "", subject |-> "", parts |-> <<>>]

\* the responses of the email URL: at most MaxParts parts
ResponseSet == {Email(ps) : ps \in UNION {PartsOfLen(n) : n \in 0..MaxParts}} \cup {Undecodable}

(***************************************************************************)
(* _download_pdf and _extract_form_fields.                                 *)
(***************************************************************************)
\* the response of a PDF URL that fails (network error, timeout, non-2xx)
NetFail == [ok |-> FALSE, content |-> Corrupt]

Served(file) == [ok |-> TRUE, content |-> file]

\* lines 35-39: filepath
DownloadPath(url) ==
    LET segment == LastSegment(url)
        filename == IF segment = "" THEN "downloaded.pdf" ELSE segment
    IN  WORK_DIR \o "/" \o (IF EndsWith(filename, ".pdf") THEN filename ELSE filename \o ".pdf")

\* lines 29-49: the value _download_pdf returns (size_bytes is left out,
\* the bytes of a file are not modelled)
DownloadResult(url, response) ==
    IF response.ok
    THEN [status |-> "success", message |-> "Downloaded PDF", filepath |-> DownloadPath(url)]
    ELSE [status |-> "error", message |-> "Failed to download PDF"]

RECURSIVE FieldsFrom(_, _, _, _)
FieldsFrom(pages, p, w, fields) ==
    IF p > Len(pages) THEN fields
    ELSE IF w > Len(pages[p]) THEN FieldsFrom(pages, p + 1, 1, fields)
    ELSE LET widget == pages[p][w] IN
         FieldsFrom(pages, p, w + 1,
                    Put(fields, widget.field_name,
                        [type |-> widget.field_type_string,
                         value |-> widget.field_value,
                         page |-> p - 1]))

\* lines 86-111: the value _extract_form_fields returns
ExtractResult(file, pdf_path) ==
    IF ~file.readable
    THEN [status |-> "error", message |-> "Failed to extract form fields"]
    ELSE LET fields == FieldsFrom(file.pages, 1, 1, <<>>) IN
         [status |-> "success", filepath |-> pdf_path,
          num_fields |-> Len(fields), fields |-> fields]

\* lines 114-153: the value _generate_form_values returns for a reply of the
\* generation service; a reply is [ok, values]
GenerateResult(reply) ==
    IF reply.ok
    THEN [status |-> "success", generated_values |-> reply.values,
          fields_filled |-> Len(reply.values)]
    ELSE [status |-> "error", message |-> "Failed to generate values"]

(***************************************************************************)
(* _process_email_automation: what it does with the result of each stage.  *)
(* A decision is [pc, result]: the next stage, or "Done" with the value    *)
(* returned to the caller.                                                 *)
(***************************************************************************)
NoRet == [status |-> "none"]

Continue(stage) == [pc |-> stage, result |-> NoRet]

Return(result) == [pc |-> "Done", result |-> result]

\* lines 241-245
AfterParse(email_result) ==
    IF email_result.status # "success" \/ email_result.pdf_urls = <<>>
    THEN Return([status |-> "error", message |-> "No PDF found in email"])
    ELSE Continue("Download")

\* lines 248-252
AfterDownload(download_result) ==
    IF download_result.status # "success"
    THEN Return(download_result)
    ELSE Continue("Inspect")

\* a variant without the num_fields check
AfterInspect_NoZeroCheck(extract_result) ==
    IF extract_result.status # "success"
    THEN Return(extract_result)
    ELSE Continue("Synthesize")

\* lines 255-260
AfterInspect(extract_result) ==
    IF extract_result.status # "success"
    THEN Return(extract_result)
    ELSE IF extract_result.num_fields = 0
         THEN Return([status |-> "info", message |-> "PDF has no fillable form fields"])
         ELSE Continue("Synthesize")

\* lines 268-270
AfterSynthesize(gen_result) ==
    IF gen_result.status # "success"
    THEN Return(gen_result)
    ELSE Continue("Fill")

\* a variant that reads every key of fill_result with .get
AfterFill_Get(email_result, pdf_path, fill_result) ==
    LET get(k) == IF k \in DOMAIN fill_result THEN fill_result[k] ELSE "" IN
    Return([status |-> "success",
            email_subject |-> email_result.subject,
            original_pdf |-> pdf_path,
            filled_pdf |-> get("output_path"),
            fields_filled |-> get("fields_filled"),
            pdf_base64 |-> get("pdf_base64"),
            download_instructions |-> get("download_instructions"),
            message |-> "Successfully filled fields"])

\* lines 275-286: fill_result["output_path"] and fill_result["fields_filled"]
\* raise KeyError on a dict without them, which the except clause turns
\* into an error result
AfterFill(email_result, pdf_path, fill_result) ==
    IF {"output_path", "fields_filled"} \subseteq DOMAIN fill_result
    THEN Return([status |-> "success",
                 email_subject |-> email_result.subject,
                 original_pdf |-> pdf_path,
                 filled_pdf |-> fill_result.output_path,
                 fields_filled |-> fill_result.fields_filled,
                 pdf_base64 |-> IF "pdf_base64" \in DOMAIN fill_result
                                THEN fill_result.pdf_base64 ELSE "",
                 download_instructions |-> IF "download_instructions" \in DOMAIN fill_result
                                           THEN fill_result.download_instructions ELSE "",
                 message |-> "Successfully filled fields"])
    ELSE Return([status |-> "error", message |-> "Processing failed: 'output_path'"])

(***************************************************************************)
(* State.                                                                  *)
(***************************************************************************)
VARIABLES
    fs,               \* the files under WORK_DIR: path -> file
    field_values,     \* fill_pdf_form: the field_values argument
    passes,           \* fill_pdf_form: processed_values after each pass
    fill_ret,         \* fill_pdf_form: the returned dict
    email,            \* parse_email: the response of the email URL
    parse_ret,        \* parse_email: the returned dict
    web_email,        \* email URL -> response
    web_pdf,          \* PDF URL -> response
    llm,              \* the replies the generation service can give
    email_json_url,   \* invocation -> its argument
    pc,               \* invocation -> the stage it is about to run
    calls,            \* invocation -> the stages it has run, in order
    email_result,     \* invocation -> the locals of _process_email_automation
    download_result,
    extract_result,
    gen_result,
    fill_result,
    result            \* invocation -> the value returned to the caller

tool_vars == <<field_values, passes, fill_ret, email, parse_ret>>

env_vars == <<web_email, web_pdf, llm, email_json_url>>

run_vars == <<pc, calls, email_result, download_result, extract_result,
              gen_result, fill_result, result>>

vars == <<fs, tool_vars, env_vars, run_vars>>

Invocations == {1, 2}

NoPasses == [month |-> <<>>, year |-> <<>>, defaults |-> <<>>, suppress |-> <<>>]

NoFiles == <<>>

ToolsIdle ==
    /\ field_values = <<>>
    /\ passes = NoPasses
    /\ fill_ret = NoRet
    /\ email = Undecodable
    /\ parse_ret = NoRet

RunsFresh ==
    /\ calls = [i \in Invocations |-> <<>>]
    /\ email_result = [i \in Invocations |-> NoRet]
    /\ download_result = [i \in Invocations |-> NoRet]
    /\ extract_result = [i \in Invocations |-> NoRet]
    /\ gen_result = [i \in Invocations |-> NoRet]
    /\ fill_result = [i \in Invocations |-> NoRet]
    /\ result = [i \in Invocations |-> NoRet]

\* no invocation of process_email_automation
RunsIdle ==
    /\ web_email = <<>>
    /\ web_pdf = <<>>
    /\ llm = {}
    /\ email_json_url = [i \in Invocations |-> ""]
    /\ pc = [i \in Invocations |-> "off"]
    /\ RunsFresh

(***************************************************************************)
(* The tool fill_pdf_form (SpecFill).                                      *)
(***************************************************************************)
InitFill ==
    /\ \E file \in DocSet \cup {Corrupt} : fs = (FormPath :> file)
    /\ ToolsIdle
    /\ RunsIdle

\* the tool fill_pdf_form(pdf_path, field_values), lines 313-316 and 156-234;
\* one call per behaviour
fill_pdf_form ==
    /\ fill_ret = NoRet
    /\ \E values \in ValueMaps, save_ok \in BOOLEAN :
        LET file == fs[FormPath]
            ret == FillResult(file, FormPath, values, save_ok)
            after_month == MonthNormalize(values)
            after_year == YearDecompose(after_month)
            after_defaults == DefaultBackfill(after_year)
            after_suppress == SuppressDuplicates(after_defaults)
        IN  /\ field_values' = values
            /\ passes' = IF file.readable
                         THEN [month |-> after_month, year |-> after_year,
                               defaults |-> after_defaults, suppress |-> after_suppress]
                         ELSE NoPasses
            /\ fill_ret' = ret
            /\ fs' = IF ret.status = "success"
                     THEN (ret.output_path :> Commit(file, after_suppress)) @@ fs
                     ELSE fs
    /\ UNCHANGED <<email, parse_ret, env_vars, run_vars>>

NextFill == fill_pdf_form

SpecFill == InitFill /\ [][NextFill]_vars

(***************************************************************************)
(* The tool parse_email (SpecParse).                                       *)
(***************************************************************************)
InitParse ==
    /\ email \in ResponseSet
    /\ parse_ret = NoRet
    /\ field_values = <<>>
    /\ passes = NoPasses
    /\ fill_ret = NoRet
    /\ fs = NoFiles
    /\ RunsIdle

\* the tool parse_email(email_json_url), lines 295-298 and 52-83;
\* one call per behaviour
parse_email ==
    /\ parse_ret = NoRet
    /\ parse_ret' = ParseResult(email)
    /\ UNCHANGED <<fs, email, field_values, passes, fill_ret, env_vars, run_vars>>

NextParse == parse_email

SpecParse == InitParse /\ [][NextParse]_vars

(***************************************************************************)
(* The tool process_email_automation (Spec: one invocation; SpecConc: two  *)
(* invocations served concurrently).  Every stage is one step: a stage is  *)
(* a blocking call, and the transport serves other invocations meanwhile.  *)
(***************************************************************************)
EmailUrl1 == "https://interaction.co/assets/easy-pdf.json"

EmailUrl2 == "https://interaction.co/assets/hard-pdf.json"

PdfPart(body) == [filename |-> "contract.pdf", body |-> body]

\* the email responses of Spec
EmailSet ==
    { Undecodable,
      Email(<<>>),
      Email(<< PdfPart("") >>),
      Email(<< [filename |-> "notes.txt", body |-> "see " \o LinkA] >>),
      Email(<< PdfPart("see " \o LinkA) >>),
      Email(<< PdfPart(""), PdfPart(LinkB \o " " \o LinkA) >>) }

\* the replies of the generation service: a failure, or a dict of at most
\* MaxGen items
Replies ==
    {[ok |-> FALSE, values |-> <<>>]} \cup
    {[ok |-> TRUE, values |-> m] : m \in {v \in ValueMaps : Len(v) <= MaxGen}}

Init ==
    /\ fs = NoFiles
    /\ ToolsIdle
    /\ \E r \in EmailSet : web_email = (EmailUrl1 :> r)
    /\ \E d \in {Served(f) : f \in DocSet \cup {Corrupt}} \cup {NetFail} :
           web_pdf = [u \in {LinkA, LinkB} |-> d]
    /\ llm = Replies
    /\ email_json_url = [i \in Invocations |-> IF i = 1 THEN EmailUrl1 ELSE ""]
    /\ pc = [i \in Invocations |-> IF i = 1 THEN "ParseEmail" ELSE "off"]
    /\ RunsFresh

\* the end of a stage: its decision becomes the next pc and, at the end of
\* the invocation, the returned value
Decide(i, stage, decision) ==
    /\ pc' = [pc EXCEPT ![i] = decision.pc]
    /\ result' = [result EXCEPT ![i] = decision.result]
    /\ calls' = [calls EXCEPT ![i] = Append(@, stage)]

\* lines 240-245
ParseEmail(i) ==
    /\ pc[i] = "ParseEmail"
    /\ LET r == ParseResult(web_email[email_json_url[i]]) IN
       /\ email_result' = [email_result EXCEPT ![i] = r]
       /\ Decide(i, "ParseEmail", AfterParse(r))
    /\ UNCHANGED <<fs, tool_vars, env_vars, download_result, extract_result,
                   gen_result, fill_result>>

\* lines 245-252
Download(i) ==
    /\ pc[i] = "Download"
    /\ LET pdf_url == email_result[i].pdf_urls[1]
           response == web_pdf[pdf_url]
           r == DownloadResult(pdf_url, response)
       IN  /\ download_result' = [download_result EXCEPT ![i] = r]
           /\ fs' = IF r.status = "success"
                    THEN (r.filepath :> response.content) @@ fs
                    ELSE fs
           /\ Decide(i, "Download", AfterDownload(r))
    /\ UNCHANGED <<tool_vars, env_vars, email_result, extract_result,
                   gen_result, fill_result>>

\* lines 252-260
Inspect(i) ==
    /\ pc[i] = "Inspect"
    /\ LET pdf_path == download_result[i].filepath
           r == ExtractResult(fs[pdf_path], pdf_path)
       IN  /\ extract_result' = [extract_result EXCEPT ![i] = r]
           /\ Decide(i, "Inspect", AfterInspect(r))
    /\ UNCHANGED <<fs, tool_vars, env_vars, email_result, download_result,
                   gen_result, fill_result>>

\* lines 262-270
Synthesize(i) ==
    /\ pc[i] = "Synthesize"
    /\ \E reply \in llm :
           LET r == GenerateResult(reply) IN
           /\ gen_result' = [gen_result EXCEPT ![i] = r]
           /\ Decide(i, "Synthesize", AfterSynthesize(r))
    /\ UNCHANGED <<fs, tool_vars, env_vars, email_result, download_result,
                   extract_result, fill_result>>

\* lines 272-286
Fill(i) ==
    /\ pc[i] = "Fill"
    /\ \E save_ok \in BOOLEAN :
           LET pdf_path == download_result[i].filepath
               file == fs[pdf_path]
               r == FillResult(file, pdf_path, gen_result[i].generated_values, save_ok)
           IN  /\ fill_result' = [fill_result EXCEPT ![i] = r]
               /\ fs' = IF r.status = "success"
                        THEN (r.output_path :>
                                 Commit(file, Normalize(gen_result[i].generated_values))) @@ fs
                        ELSE fs
               /\ Decide(i, "Fill", AfterFill(email_result[i], pdf_path, r))
    /\ UNCHANGED <<tool_vars, env_vars, email_result, download_result,
                   extract_result, gen_result>>

Next ==
    \E i \in Invocations :
        \/ ParseEmail(i)
        \/ Download(i)
        \/ Inspect(i)
        \/ Synthesize(i)
        \/ Fill(i)

Spec == Init /\ [][Next]_vars

\* the replies of the generation service in SpecConc
ConcReplies ==
    { [ok |-> FALSE, values |-> <<>>],
      [ok |-> TRUE, values |-> <<>>],
      [ok |-> TRUE, values |-> << <<"Month", "March">> >>] }

InitConc ==
    /\ fs = NoFiles
    /\ ToolsIdle
    /\ web_email = (EmailUrl1 :> Email(<< PdfPart("see " \o LinkA) >>)) @@
                   (EmailUrl2 :> Email(<< PdfPart(LinkB) >>))
    /\ web_pdf = (LinkA :> Served(OnePageDoc)) @@ (LinkB :> Served(TwoPageDoc))
    /\ llm = ConcReplies
    /\ email_json_url \in [Invocations -> {EmailUrl1, EmailUrl2}]
    /\ pc = [i \in Invocations |-> "ParseEmail"]
    /\ RunsFresh

SpecConc == InitConc /\ [][Next]_vars

(***************************************************************************)
(* Properties of process_email_automation (Spec, SpecConc).                *)
(***************************************************************************)
Stages == <<"ParseEmail", "Download", "Inspect", "Synthesize", "Fill">>

StageResult(i) ==
    <<email_result[i], download_result[i], extract_result[i], gen_result[i], fill_result[i]>>

Called(i) == {calls[i][n] : n \in DOMAIN calls[i]}

\* C1: the stages run in the order ParseEmail, Download, Inspect,
\* Synthesize, Fill; a stage runs only after every earlier stage returned
\* success; the non-success result of any stage is itself the value
\* returned to the caller, and no later stage runs.
C1_StageResultReturned ==
    \A i \in Invocations :
        /\ calls[i] = SubSeq(Stages, 1, Len(calls[i]))
        /\ \A n \in DOMAIN calls[i] :
               /\ StageResult(i)[n] # NoRet
               /\ \A k \in 1..(n - 1) : StageResult(i)[k].status = "success"
        /\ \A n \in DOMAIN calls[i] :
               StageResult(i)[n].status # "success" =>
                   /\ Len(calls[i]) = n
                   /\ pc[i] = "Done"
                   /\ result[i] = StageResult(i)[n]

\* C2: when the Fill stage returns an error the returned value is not a
\* success and holds no filled path, fill count or encoded bytes; a success
\* is returned only when all five stages returned success.
C2_NoPartialFill ==
    \A i \in Invocations :
        pc[i] = "Done" =>
            /\ fill_result[i].status = "error" =>
                   /\ result[i].status # "success"
                   /\ DOMAIN result[i] \cap {"filled_pdf", "fields_filled", "pdf_base64"} = {}
            /\ result[i].status = "success" =>
                   \A n \in DOMAIN Stages : StageResult(i)[n].status = "success"

C2_Witness ==
    /\ pc[1] = "Done"
    /\ gen_result[1].status = "success"
    /\ fill_result[1].status = "error"
    /\ result[1].status = "error"
    /\ calls[1] = Stages

\* the document invocation i downloaded has no widget
ZeroWidgets(i) ==
    /\ download_result[i].status = "success"
    /\ fs[download_result[i].filepath].readable
    /\ AllWidgets(fs[download_result[i].filepath]) = <<>>

\* C3: on a downloaded document without widgets the inspection returns
\* success with num_fields = 0, the invocation ends with status info, and
\* neither the synthesis nor the fill stage runs.
C3_NoFillableFields ==
    \A i \in Invocations :
        ZeroWidgets(i) =>
            /\ Called(i) \cap {"Synthesize", "Fill"} = {}
            /\ gen_result[i] = NoRet /\ fill_result[i] = NoRet
            /\ pc[i] \in {"Inspect", "Done"}
            /\ pc[i] = "Done" =>
                   /\ extract_result[i].status = "success"
                   /\ extract_result[i].num_fields = 0
                   /\ result[i].status = "info"

C3_Witness ==
    /\ ZeroWidgets(1)
    /\ pc[1] = "Done"
    /\ extract_result[1].num_fields = 0
    /\ result[1] = [status |-> "info", message |-> "PDF has no fillable form fields"]
    /\ calls[1] = <<"ParseEmail", "Download", "Inspect">>

\* the files invocation i has written
Written(i) ==
    (IF download_result[i].status = "success" THEN {download_result[i].filepath} ELSE {})
    \cup (IF fill_result[i].status = "success" THEN {fill_result[i].output_path} ELSE {})

\* C9: two concurrent invocations never write the same file of the working
\* directory, and an invocation inspects the bytes it downloaded itself.
C9_DistinctFiles ==
    \A i, j \in Invocations :
        i # j =>
            /\ Written(i) \cap Written(j) = {}
            /\ extract_result[i].status = "success" =>
                   extract_result[i] =
                       ExtractResult(web_pdf[email_result[i].pdf_urls[1]].content,
                                     download_result[i].filepath)

(***************************************************************************)
(* Properties of fill_pdf_form (SpecFill).                                 *)
(***************************************************************************)
\* the normalization passes of the recorded call have run
Normalized == fill_ret # NoRet /\ fs[FormPath].readable

\* the keys of PairSet and of the documents that contain "month", "yr" or
\* "year" when lower-cased, and those that end in " 2"
MonthKeys == {"Month"}

YearKeys == {"Year", "Model yr", "Year-1", "Year-2", "Year-3", "Year-4"}

SecondEntityKeys == {"Sell date 2", "Seller print name 2"}

\* the values of PairSet that are full month names, with their numbers
MonthNumbers == ("March" :> "03") @@ ("May" :> "05")

\* the values of PairSet that are four digits
FourDigitValues == {"2024", "1999"}

WellKnownDefaults ==
    ("Month" :> "03") @@ ("Day" :> "15") @@ ("Seller State" :> "CA") @@
    ("Buyer State" :> "CA") @@ ("Sell zip" :> "90210") @@ ("Buyer zip" :> "90210") @@
    ("Sell date 1" :> "03/15/2025") @@ ("Sell date 2" :> "")

\* the condition of the duplicate-row suppression, on a value map
NoSecondSeller(m) ==
    LET primary == IF Has(m, "Print seller's name") /\ Get(m, "Print seller's name") # ""
                   THEN Get(m, "Print seller's name")
                   ELSE IF Has(m, "Seller print name 1")
                        THEN Get(m, "Seller print name 1")
                        ELSE ""
    IN  \/ ~Has(m, "Seller print name 2")
        \/ Get(m, "Seller print name 2") = ""
        \/ Get(m, "Seller print name 2") = primary

\* C4: when "Seller print name 2" is absent, empty or equal to the primary
\* seller name ("Print seller's name", else "Seller print name 1"), every
\* key ending in " 2" of the normalized map holds the empty string.
C4_DuplicateRowSuppression ==
    (Normalized /\ NoSecondSeller(field_values)) =>
        \A k \in Keys(passes.suppress) \cap SecondEntityKeys :
            Get(passes.suppress, k) = ""

C4_Witness ==
    /\ Normalized
    /\ Has(field_values, "Print seller's name")
    /\ Get(field_values, "Print seller's name") = ""
    /\ Has(field_values, "Seller print name 1")
    /\ Has(field_values, "Seller print name 2")
    /\ Get(field_values, "Seller print name 2") = Get(field_values, "Seller print name 1")
    /\ Get(passes.defaults, "Seller print name 2") = "Bob"
    /\ Get(passes.suppress, "Seller print name 2") = ""
    /\ Get(passes.suppress, "Sell date 2") = ""

\* the canonical year of a value map
YearLike(m, i) == m[i][1] \in YearKeys /\ m[i][2] \in FourDigitValues

ExpectedYear(m) ==
    IF \E i \in DOMAIN m : YearLike(m, i)
    THEN LET first == CHOOSE i \in DOMAIN m :
                          YearLike(m, i) /\ \A j \in 1..(i - 1) : ~YearLike(m, j)
         IN  m[first][2]
    ELSE "2025"

\* C5: Year-1..Year-4 of the normalized map are the four characters of the
\* first 4-digit value under a key containing "yr" or "year", in map order,
\* and of "2025" when there is none; supplied Year-1..Year-4 are overwritten.
C5_YearDecomposition ==
    Normalized =>
        \A n \in 1..4 :
            LET key == "Year-" \o CharAt("1234", n) IN
            /\ Has(passes.suppress, key)
            /\ Get(passes.suppress, key) = CharAt(ExpectedYear(field_values), n)
            /\ Get(passes.year, key) = CharAt(ExpectedYear(field_values), n)

C5_Witness ==
    /\ Normalized
    /\ Len(field_values) = 3
    /\ field_values[1] = <<"Year-1", "7">>
    /\ field_values[2] = <<"Model yr", "1999">>
    /\ field_values[3] = <<"Year", "2024">>
    /\ Get(passes.suppress, "Year-1") = "1"
    /\ Get(passes.suppress, "Year-4") = "9"

\* C6: the backfill pass keeps a present non-empty value of each of the
\* eight well-known names, sets a missing or empty one to its default, and
\* changes no other key.
C6_DefaultBackfill ==
    Normalized =>
        /\ Keys(passes.defaults) = Keys(passes.year) \cup DOMAIN WellKnownDefaults
        /\ \A k \in Keys(passes.defaults) :
               Get(passes.defaults, k) =
                   IF Has(passes.year, k) /\ (k \notin DOMAIN WellKnownDefaults \/ Get(passes.year, k) # "")
                   THEN Get(passes.year, k)
                   ELSE WellKnownDefaults[k]

C6_Witness ==
    /\ Normalized
    /\ Has(passes.year, "Sell date 2")
    /\ Get(passes.year, "Sell date 2") = "04/01/2025"
    /\ Get(passes.defaults, "Sell date 2") = "04/01/2025"
    /\ Has(passes.year, "Month")
    /\ Get(passes.year, "Month") = ""
    /\ Get(passes.defaults, "Month") = "03"
    /\ ~Has(passes.year, "Day")
    /\ Get(passes.defaults, "Day") = "15"

\* C7: in the saved document a field named in the normalized map holds the
\* map's value, any other field keeps its value, and fields_filled is the
\* number of widgets named in the map.
C7_Commit ==
    (Normalized /\ fill_ret.status = "success") =>
        LET before == fs[FormPath]
            after == fs[fill_ret.output_path]
            m == passes.suppress
            named == UNION {{<<p, w>> : w \in {x \in DOMAIN before.pages[p] :
                                        before.pages[p][x].field_name \in Keys(m)}} :
                            p \in DOMAIN before.pages}
        IN  /\ DOMAIN after.pages = DOMAIN before.pages
            /\ \A p \in DOMAIN before.pages :
                   /\ DOMAIN after.pages[p] = DOMAIN before.pages[p]
                   /\ \A w \in DOMAIN before.pages[p] :
                          LET old == before.pages[p][w]
                              new == after.pages[p][w]
                          IN  /\ new.field_name = old.field_name
                              /\ new.field_type_string = old.field_type_string
                              /\ new.field_value =
                                     IF old.field_name \in Keys(m)
                                     THEN Get(m, old.field_name)
                                     ELSE old.field_value
            /\ fill_ret.fields_filled = Cardinality(named)
            /\ fill_ret.pdf_base64 = Base64(after)

C7_Witness ==
    /\ Normalized
    /\ fill_ret.status = "success"
    /\ fs[FormPath] = TwoPageDoc
    /\ Has(field_values, "Month")
    /\ Get(field_values, "Month") = "March"
    /\ fill_ret.fields_filled = 3
    /\ fs[fill_ret.output_path].pages[1][1].field_value = "03"
    /\ fs[fill_ret.output_path].pages[2][1].field_value = "03"
    /\ fs[fill_ret.output_path].pages[1][2].field_value = "old"

\* C8: the month pass replaces a full month name under a key containing
\* "month" by its 2-digit number, passes every other pair through, and
\* changes nothing when applied to its own output.
C8_MonthNormalization ==
    Normalized =>
        /\ Len(passes.month) = Len(field_values)
        /\ \A i \in DOMAIN field_values :
               LET k == field_values[i][1]
                   v == field_values[i][2]
               IN  passes.month[i] =
                       IF k \in MonthKeys /\ v \in DOMAIN MonthNumbers
                       THEN <<k, MonthNumbers[v]>>
                       ELSE <<k, v>>
        /\ MonthNormalize(passes.month) = passes.month

C8_Witness ==
    /\ Normalized
    /\ Has(field_values, "Month")
    /\ Get(field_values, "Month") = "March"
    /\ Get(passes.month, "Month") = "03"
    /\ Has(field_values, "Name")
    /\ Get(passes.month, "Name") = "May"

(***************************************************************************)
(* Properties of parse_email (SpecParse).                                  *)
(***************************************************************************)
\* the links each body of BodySet holds, in match order
LinksOfBody ==
    ("" :> <<>>) @@
    (("see " \o LinkA) :> <<LinkA>>) @@
    ((LinkA \o " " \o LinkB) :> <<LinkA, LinkB>>) @@
    ("https://dropbox.com/c drive.google.com/d" :> <<>>) @@
    (DrivePrefix :> <<>>)

RECURSIVE ExpectedUrls(_, _)
ExpectedUrls(parts, i) ==
    IF i > Len(parts) THEN <<>>
    ELSE (IF parts[i].filename = "contract.pdf" THEN LinksOfBody[parts[i].body] ELSE <<>>)
         \o ExpectedUrls(parts, i + 1)

\* C10: on a decodable payload parse_email returns success, and pdf_urls is
\* the concatenation, in part order and match order, of the links of the
\* parts whose filename ends in ".pdf"; without any link it is still success
\* with an empty sequence.
C10_ParseEmail ==
    (parse_ret # NoRet /\ email.decodable) =>
        /\ parse_ret.status = "success"
        /\ parse_ret.pdf_urls = ExpectedUrls(email.parts, 1)
        /\ parse_ret.pdf_count = Len(parse_ret.pdf_urls)

C10_Witness ==
    /\ parse_ret # NoRet
    /\ email.decodable
    /\ Len(email.parts) = 2
    /\ email.parts[1] = [filename |-> "notes.txt", body |-> "see " \o LinkA]
    /\ email.parts[2] = [filename |-> "contract.pdf", body |-> LinkA \o " " \o LinkB]
    /\ parse_ret.pdf_urls = <<LinkA, LinkB>>

====
